---- MODULE Spec2Model ----
(***************************************************************************)
(* A model of species_finder.py: the pipeline of main()                    *)
(*   glob -> choose_species -> create_species_dict -> results_to_csv       *)
(*        -> create_bar_chart / savefig                                    *)
(* over a working directory of csv files.                                  *)
(*                                                                         *)
(* Text is modelled as a sequence of tokens (a token stands for a fixed    *)
(* run of characters), so that suffix tests, str.split and string          *)
(* equality are computed on the text and not assumed.  The file name       *)
(* "A_final_results.csv" is << "A", "_", "final_results", ".csv" >>.       *)
(* A csv cell holding a number is modelled by the number (its decimal      *)
(* text); csv.DictWriter writes the int 0 and the text "0" alike.          *)
(***************************************************************************)
EXTENDS Integers, Sequences, FiniteSets, TLC

VARIABLES
    dir,             \* the working directory: file name -> file
    typed,           \* the text the user will type at the species prompt
    pc,              \* position of main()
    csv_list,        \* main: result of glob.glob
    search_species,  \* main: result of choose_species()
    results_list,    \* create_species_dict: the list being built
    file_idx,        \* create_species_dict: index of csv_file in csv_list
    line_idx,        \* create_species_dict: next row the reader yields
    species_counter, \* create_species_dict: matches seen in the open file
    short_filename,  \* create_species_dict: display name of the open file
    open_files,      \* names of the source files currently open
    error,           \* the uncaught exception that ended main, or "none"
    png,             \* names of the image files written by savefig
    run,             \* which invocation of the program this is (1 or 2)
    dir0,            \* history: the directory when the program first started
    first_export     \* history: the exported table left by the first run

vars == << dir, typed, pc, csv_list, search_species, results_list, file_idx,
           line_idx, species_counter, short_filename, open_files, error, png,
           run, dir0, first_export >>

----------------------------------------------------------------------------
(* Bounds of the model *)

MaxRows == 2

MaxFiles == 2

----------------------------------------------------------------------------
(* Text helpers *)

\* s ends with suf
EndsWith(s, suf) ==
    /\ Len(s) >= Len(suf)
    /\ SubSeq(s, Len(s) - Len(suf) + 1, Len(s)) = suf

\* positions at which sep occurs in s
Occurrences(s, sep) ==
    { p \in 1..(Len(s) - Len(sep) + 1) : SubSeq(s, p, p + Len(sep) - 1) = sep }

\* the least element of a non-empty set of integers
Least(S) == CHOOSE p \in S : \A r \in S : p <= r

\* str.split(sep)[0]: the text before the first occurrence of sep, or all of
\* s when sep does not occur
SplitFirst(s, sep) ==
    IF Occurrences(s, sep) = {} THEN s
    ELSE SubSeq(s, 1, Least(Occurrences(s, sep)) - 1)

\* s without the trailing suf, when it ends with suf; s otherwise
RemoveSuffix(s, suf) ==
    IF EndsWith(s, suf) THEN SubSeq(s, 1, Len(s) - Len(suf)) ELSE s

\* str.lower on the tokens that carry letters
LowerTok(t) == IF t = "SpeciesX" THEN "speciesx"
               ELSE IF t = "SpeciesY" THEN "speciesy" ELSE t

Lower(s) == [p \in 1..Len(s) |-> LowerTok(s[p])]

RECURSIVE Strip(_)
\* str.strip: leading and trailing blanks removed
Strip(s) ==
    IF s = << >> THEN s
    ELSE IF Head(s) = " " THEN Strip(Tail(s))
    ELSE IF s[Len(s)] = " " THEN Strip(SubSeq(s, 1, Len(s) - 1))
    ELSE s

----------------------------------------------------------------------------
(* Names *)

Suffix == << "_", "final_results", ".csv" >>

Pattern == << "final_results", ".csv" >>

NameA == << "A", "_", "final_results", ".csv" >>

NameB == << "B", "final_results", ".csv" >>

NameAA == << "A", "_", "final_results", ".csv", "_", "final_results", ".csv" >>

\* "B_final_results.csv", the second file of the worked example
NameBU == << "B", "_", "final_results", ".csv" >>

SourceNames == { NameA, NameB, NameAA }

QueryX == << "SpeciesX" >>

QueryLower == << "speciesx" >>

QueryBlank == << "SpeciesX", " " >>

QueryPattern == << "final_results" >>

QuerySource == << "A", "_", "final_results" >>

SpeciesY == << "SpeciesY" >>


Queries == { QueryX, QueryLower, QueryBlank }

QueriesTwice == { QueryX, QueryPattern, QuerySource }

\* results_to_csv: open(csv_filename + ".csv", "w")
ExportName(q) == q \o << ".csv" >>

\* main: bar_chart.savefig(search_species + ".png")
ImageName(q) == q \o << ".png" >>

AllNames ==
    SourceNames \cup { NameBU } \cup { ExportName(q) : q \in Queries \cup QueriesTwice }

\* The order in which the operating system lists the directory; glob.glob
\* returns the matching names in this order.
DirListing ==
    << NameA, ExportName(QueryPattern), NameB, NameBU, NameAA,
       ExportName(QueryX), ExportName(QueryLower), ExportName(QueryBlank) >>

----------------------------------------------------------------------------
(* Files *)

\* The Reads column of the source files, row by row
ReadsColumn == << 10, 3, 7, 5 >>

ReadsAt(j) == ReadsColumn[((j - 1) % Len(ReadsColumn)) + 1]

NoFile == [exists |-> FALSE, openable |-> FALSE, header |-> {}, rows |-> << >>]

\* a file (or a directory of that name) that open() refuses
Unopenable == [exists |-> TRUE, openable |-> FALSE, header |-> {}, rows |-> << >>]

SpeciesSeqs == UNION { [1..k -> { QueryX, SpeciesY }] : k \in 0..MaxRows }

\* files with the columns Species and Reads
WellFormedFiles ==
    { [exists |-> TRUE, openable |-> TRUE, header |-> { "Species", "Reads" },
       rows |-> [j \in 1..Len(s) |-> [Species |-> s[j], Reads |-> ReadsAt(j)]]]
      : s \in SpeciesSeqs }

\* files without the Reads column
NoReadsFiles ==
    { [exists |-> TRUE, openable |-> TRUE, header |-> { "Species" },
       rows |-> [j \in 1..Len(s) |-> [Species |-> s[j]]]]
      : s \in SpeciesSeqs }

\* files without the Species column
NoSpeciesFiles ==
    { [exists |-> TRUE, openable |-> TRUE, header |-> { "Reads" },
       rows |-> [j \in 1..k |-> [Reads |-> ReadsAt(j)]]]
      : k \in 0..MaxRows }

SourceFiles == WellFormedFiles \cup NoReadsFiles \cup NoSpeciesFiles \cup { Unopenable }

\* a variant that leaves out the rows with reads 0
ExportedTableNonZero(results) ==
    [exists |-> TRUE, openable |-> TRUE, header |-> { "filename", "reads" },
     rows |-> SelectSeq(results, LAMBDA r : r.reads # 0)]

\* what csv.DictWriter leaves on disk: the header filename,reads and one row
\* per dictionary, in list order
ExportedTable(results) ==
    [exists |-> TRUE, openable |-> TRUE, header |-> { "filename", "reads" },
     rows |-> results]

\* an exported table left in the directory by an earlier session
OldExport == ExportedTable(<< [filename |-> << "old" >>, reads |-> 1] >>)

----------------------------------------------------------------------------
(* The functions of species_finder.py *)

\* glob.glob("*final_results.csv") on the directory d
Glob(d) ==
    SelectSeq(DirListing, LAMBDA n : d[n].exists /\ EndsWith(n, Pattern))

\* shorten_name: f.name.split("_final_results.csv")[0]
shorten_name(name) == SplitFirst(name, Suffix)

\* a variant that swallows the error of open() and reads nothing
OpenNeverFails(file) == FALSE

\* open(csv_file) raises
OpenFails(file) == ~file.openable

\* a variant that trims both sides before comparing
MatchesQueryStripped(line, q) ==
    "Species" \in DOMAIN line /\ Strip(line["Species"]) = Strip(q)

\* line["Species"] == search_species, for a row that has the field
MatchesQuery(line, q) == "Species" \in DOMAIN line /\ line["Species"] = q

\* a variant that reads the Species field with a default (line.get)
RaisesKeyErrorLenient(line, q) ==
    MatchesQuery(line, q) /\ "Reads" \notin DOMAIN line

\* the loop body raises KeyError on this row: line["Species"], and for a
\* matching row line["Reads"]
RaisesKeyError(line, q) ==
    IF "Species" \notin DOMAIN line THEN TRUE
    ELSE MatchesQuery(line, q) /\ "Reads" \notin DOMAIN line

\* a variant that stores the running count of matches
MatchRecordCount(short, line, counter) == [filename |-> short, reads |-> counter]

\* the dictionary appended for a matching row
MatchRecord(short, line, counter) == [filename |-> short, reads |-> line["Reads"]]

\* a variant that appends the zero record after every file
ZeroRecordAlways(counter) == TRUE

\* if species_counter == 0: a record with reads 0 is appended
ZeroRecordNeeded(counter) == counter = 0

ZeroRecord(short) == [filename |-> short, reads |-> 0]

\* a variant that inserts at the front of the list
PrependRecord(list, rec) == << rec >> \o list

\* results_list.append(search_results)
AppendRecord(list, rec) == Append(list, rec)

\* a variant that leaves the file open
KeepOpen(open, name) == open

\* the with-statement closes f when the block is left, also by an exception
CloseOnExit(open, name) == open \ { name }

----------------------------------------------------------------------------
(* Initial states *)

\* the worked example: A_final_results.csv with the rows (SpeciesX,10),
\* (SpeciesY,3), (SpeciesX,7) and B_final_results.csv with the row (SpeciesY,5)
ScenarioDir ==
    [n \in AllNames |->
        IF n = NameA
        THEN [exists |-> TRUE, openable |-> TRUE, header |-> { "Species", "Reads" },
              rows |-> << [Species |-> QueryX, Reads |-> 10],
                          [Species |-> SpeciesY, Reads |-> 3],
                          [Species |-> QueryX, Reads |-> 7] >>]
        ELSE IF n = NameBU
        THEN [exists |-> TRUE, openable |-> TRUE, header |-> { "Species", "Reads" },
              rows |-> << [Species |-> SpeciesY, Reads |-> 5] >>]
        ELSE NoFile]

\* the directories the program is started in: at most MaxFiles source files,
\* and possibly an exported table of an earlier session under the name the
\* export of this query will take
StartIn(q) ==
    \E S \in SUBSET SourceNames :
        /\ Cardinality(S) <= MaxFiles
        /\ \E c \in [S -> SourceFiles], old \in { NoFile, OldExport } :
              dir = [n \in AllNames |->
                        IF n \in S THEN c[n]
                        ELSE IF n = ExportName(q) THEN old ELSE NoFile]

Started ==
    /\ pc = "glob"
    /\ csv_list = << >>
    /\ search_species = << >>
    /\ results_list = << >>
    /\ file_idx = 1
    /\ line_idx = 1
    /\ species_counter = 0
    /\ short_filename = << >>
    /\ open_files = {}
    /\ error = "none"
    /\ png = {}
    /\ run = 1
    /\ dir0 = dir
    /\ first_export = NoFile

Init ==
    /\ typed \in Queries
    /\ \/ StartIn(typed)
       \/ dir = ScenarioDir
    /\ Started

InitTwice ==
    /\ typed \in QueriesTwice
    /\ StartIn(typed)
    /\ Started

----------------------------------------------------------------------------
(* main, step by step *)

\* the file the loop of create_species_dict is at
CurrentName == csv_list[file_idx]

CurrentFile == dir[CurrentName]

\* csv_list = glob.glob("*final_results.csv")
GlobStep ==
    /\ pc = "glob"
    /\ csv_list' = Glob(dir)
    /\ pc' = "input"
    /\ UNCHANGED << dir, typed, search_species, results_list, file_idx, line_idx,
                    species_counter, short_filename, open_files, error, png,
                    run, dir0, first_export >>

\* search_species = choose_species(); create_species_dict starts with
\* results_list = []
ChooseSpecies ==
    /\ pc = "input"
    /\ search_species' = typed
    /\ results_list' = << >>
    /\ file_idx' = 1
    /\ pc' = "loop"
    /\ UNCHANGED << dir, typed, csv_list, line_idx, species_counter,
                    short_filename, open_files, error, png, run, dir0,
                    first_export >>

\* with open(csv_file) as f: reader, short_filename, species_counter = 0
OpenFile ==
    /\ pc = "loop"
    /\ file_idx <= Len(csv_list)
    /\ ~OpenFails(CurrentFile)
    /\ open_files' = open_files \cup { CurrentName }
    /\ short_filename' = shorten_name(CurrentName)
    /\ species_counter' = 0
    /\ line_idx' = 1
    /\ pc' = "scan"
    /\ UNCHANGED << dir, typed, csv_list, search_species, results_list,
                    file_idx, error, png, run, dir0, first_export >>

\* open(csv_file) raises: the exception leaves create_species_dict and main
OpenFileError ==
    /\ pc = "loop"
    /\ file_idx <= Len(csv_list)
    /\ OpenFails(CurrentFile)
    /\ error' = "IOError"
    /\ pc' = "failed"
    /\ UNCHANGED << dir, typed, csv_list, search_species, results_list,
                    file_idx, line_idx, species_counter, short_filename,
                    open_files, png, run, dir0, first_export >>

\* one iteration of "for line in reader" that raises no exception
ReadLine ==
    /\ pc = "scan"
    /\ line_idx <= Len(CurrentFile.rows)
    /\ LET line == CurrentFile.rows[line_idx] IN
        /\ ~RaisesKeyError(line, search_species)
        /\ IF MatchesQuery(line, search_species)
           THEN /\ species_counter' = species_counter + 1
                /\ results_list' =
                       AppendRecord(results_list,
                                    MatchRecord(short_filename, line,
                                                species_counter + 1))
           ELSE UNCHANGED << species_counter, results_list >>
    /\ line_idx' = line_idx + 1
    /\ UNCHANGED << dir, typed, pc, csv_list, search_species, file_idx,
                    short_filename, open_files, error, png, run, dir0,
                    first_export >>

\* an iteration that raises KeyError: the with-statement closes the file and
\* the exception leaves create_species_dict and main
ReadLineKeyError ==
    /\ pc = "scan"
    /\ line_idx <= Len(CurrentFile.rows)
    /\ RaisesKeyError(CurrentFile.rows[line_idx], search_species)
    /\ open_files' = CloseOnExit(open_files, CurrentName)
    /\ error' = "KeyError"
    /\ pc' = "failed"
    /\ UNCHANGED << dir, typed, csv_list, search_species, results_list,
                    file_idx, line_idx, species_counter, short_filename, png,
                    run, dir0, first_export >>

\* the reader is exhausted: the zero record if nothing matched, the file is
\* closed, the loop goes to the next file
EndOfFile ==
    /\ pc = "scan"
    /\ line_idx > Len(CurrentFile.rows)
    /\ results_list' =
           IF ZeroRecordNeeded(species_counter)
           THEN AppendRecord(results_list, ZeroRecord(short_filename))
           ELSE results_list
    /\ open_files' = CloseOnExit(open_files, CurrentName)
    /\ file_idx' = file_idx + 1
    /\ pc' = "loop"
    /\ UNCHANGED << dir, typed, csv_list, search_species, line_idx,
                    species_counter, short_filename, error, png, run, dir0,
                    first_export >>

\* return results_list
ReturnResults ==
    /\ pc = "loop"
    /\ file_idx > Len(csv_list)
    /\ pc' = "export"
    /\ UNCHANGED << dir, typed, csv_list, search_species, results_list,
                    file_idx, line_idx, species_counter, short_filename,
                    open_files, error, png, run, dir0, first_export >>

\* results_to_csv(search_species, results_list)
ResultsToCsv ==
    /\ pc = "export"
    /\ dir' = [dir EXCEPT ![ExportName(search_species)] = ExportedTable(results_list)]
    /\ pc' = "chart"
    /\ UNCHANGED << typed, csv_list, search_species, results_list, file_idx,
                    line_idx, species_counter, short_filename, open_files,
                    error, png, run, dir0, first_export >>

\* create_bar_chart(working_dir, search_species); bar_chart.savefig(...)
CreateBarChart ==
    /\ pc = "chart"
    /\ png' = png \cup { ImageName(search_species) }
    /\ pc' = "done"
    /\ UNCHANGED << dir, typed, csv_list, search_species, results_list,
                    file_idx, line_idx, species_counter, short_filename,
                    open_files, error, dir0, run, first_export >>

\* the user starts the program again in the same directory and types the
\* same species
RunAgain ==
    /\ pc \in { "done", "failed" }
    /\ run = 1
    /\ run' = 2
    /\ first_export' = IF pc = "done" THEN dir[ExportName(search_species)] ELSE NoFile
    /\ pc' = "glob"
    /\ csv_list' = << >>
    /\ search_species' = << >>
    /\ results_list' = << >>
    /\ file_idx' = 1
    /\ line_idx' = 1
    /\ species_counter' = 0
    /\ short_filename' = << >>
    /\ error' = "none"
    /\ UNCHANGED << dir, typed, open_files, png, dir0 >>

Next ==
    \/ GlobStep
    \/ ChooseSpecies
    \/ OpenFile
    \/ OpenFileError
    \/ ReadLine
    \/ ReadLineKeyError
    \/ EndOfFile
    \/ ReturnResults
    \/ ResultsToCsv
    \/ CreateBarChart

NextTwice == Next \/ RunAgain

Spec == Init /\ [][Next]_vars

SpecTwice == InitTwice /\ [][NextTwice]_vars

----------------------------------------------------------------------------
(* What the claims speak of, stated on the files and not on the loop *)

\* create_species_dict has returned its list
Returned == pc \in { "export", "chart", "done" }

\* the exported table has been written in this run
Exported == pc \in { "chart", "done" }

\* the discovered file at position k, as it was when the program started
Discovered(k) == dir0[csv_list[k]]

DisplayName(k) == shorten_name(csv_list[k])

\* the rows of the file whose Species field is exactly q, in row order
MatchingRows(file, q) ==
    SelectSeq(file.rows,
              LAMBDA l : IF "Species" \in DOMAIN l THEN l["Species"] = q ELSE FALSE)

MatchCount(file, q) == Len(MatchingRows(file, q))

BlockLen(file, q) == IF MatchCount(file, q) = 0 THEN 1 ELSE MatchCount(file, q)

\* the records a file contributes
Block(name, file, q) ==
    IF MatchCount(file, q) = 0
    THEN << [filename |-> shorten_name(name), reads |-> 0] >>
    ELSE [j \in 1..MatchCount(file, q) |->
             [filename |-> shorten_name(name),
              reads |-> MatchingRows(file, q)[j]["Reads"]]]

RECURSIVE Blocks(_, _, _)
\* the blocks of the first k discovered files, concatenated
Blocks(k, list, q) ==
    IF k = 0 THEN << >>
    ELSE Blocks(k - 1, list, q) \o Block(list[k], dir0[list[k]], q)

RECURSIVE SumBlockLen(_, _, _)
SumBlockLen(K, list, q) ==
    IF K = {} THEN 0
    ELSE LET k == CHOOSE x \in K : TRUE IN
         BlockLen(dir0[list[k]], q) + SumBlockLen(K \ { k }, list, q)

\* positions of the records that carry the display name of file k
RecordsOf(k) ==
    { j \in 1..Len(results_list) : results_list[j].filename = DisplayName(k) }

\* the reads values of those records, in list order
ReadsOf(k) ==
    LET recs == SelectSeq(results_list, LAMBDA r : r.filename = DisplayName(k))
    IN  [j \in 1..Len(recs) |-> recs[j].reads]

\* the discovered files that share the display name of file k
SameDisplay(k) == { k2 \in 1..Len(csv_list) : DisplayName(k2) = DisplayName(k) }

UniqueDisplay(k) == SameDisplay(k) = { k }

\* the file makes create_species_dict raise
FileFails(file, q) ==
    \/ ~file.openable
    \/ \E j \in 1..Len(file.rows) :
          IF "Species" \notin DOMAIN file.rows[j] THEN TRUE
          ELSE /\ file.rows[j]["Species"] = q
               /\ "Reads" \notin DOMAIN file.rows[j]

\* s and q differ, but only by letter case or by surrounding blanks
DiffersOnlyByCaseOrBlanks(s, q) ==
    /\ s # q
    /\ \/ Lower(s) = Lower(q)
       \/ Strip(s) = Strip(q)

----------------------------------------------------------------------------
(* C1 *)

\* C1 as stated: when create_species_dict has returned, every discovered file
\* (told apart by its display name) has exactly one record in the list.
C1_ExactlyOneRecord ==
    Returned =>
        \A k \in 1..Len(csv_list) :
            UniqueDisplay(k) => Cardinality(RecordsOf(k)) = 1

\* C1 amended: every discovered file has at least one record; it has one
\* record per row whose Species equals the query, and one record when no row
\* does.  Files that share a display name share their records.
C1_RecordsPerFile ==
    Returned =>
        \A k \in 1..Len(csv_list) :
            /\ Cardinality(RecordsOf(k)) >= 1
            /\ Cardinality(RecordsOf(k)) =
                   SumBlockLen(SameDisplay(k), csv_list, search_species)

C1_Witness ==
    /\ Returned
    /\ \E k \in 1..Len(csv_list) :
          /\ UniqueDisplay(k)
          /\ MatchCount(Discovered(k), search_species) >= 2
          /\ Cardinality(RecordsOf(k)) = MatchCount(Discovered(k), search_species)
    /\ \E k \in 1..Len(csv_list) :
          /\ MatchCount(Discovered(k), search_species) = 0
          /\ Cardinality(RecordsOf(k)) = 1

----------------------------------------------------------------------------
(* C2 *)

\* C2 as stated: the reads value emitted for a file is the number of its rows
\* whose Species equals the query.
C2_ReadsIsCount ==
    Returned =>
        \A k \in 1..Len(csv_list) :
            UniqueDisplay(k) =>
                \A j \in RecordsOf(k) :
                    results_list[j].reads = MatchCount(Discovered(k), search_species)

\* C2 amended: the reads values emitted for a file are the Reads fields of its
\* rows whose Species equals the query, in row order, and the single value 0
\* when no row does; the worked example yields (A,10), (A,7), (B,0).
C2_ReadsIsField ==
    /\ Returned =>
          \A k \in 1..Len(csv_list) :
              UniqueDisplay(k) =>
                  ReadsOf(k) =
                      IF MatchCount(Discovered(k), search_species) = 0
                      THEN << 0 >>
                      ELSE [j \in 1..MatchCount(Discovered(k), search_species) |->
                               MatchingRows(Discovered(k), search_species)[j]["Reads"]]
    /\ (Returned /\ dir0 = ScenarioDir /\ search_species = QueryX) =>
          results_list = << [filename |-> << "A" >>, reads |-> 10],
                            [filename |-> << "A" >>, reads |-> 7],
                            [filename |-> << "B" >>, reads |-> 0] >>

C2_Witness ==
    /\ pc = "done"
    /\ dir0 = ScenarioDir
    /\ search_species = QueryX
    /\ Len(results_list) = Len(csv_list) + 1

----------------------------------------------------------------------------
(* C3 *)

\* C3: when create_species_dict has returned, every discovered file none of
\* whose rows has a Species field exactly equal to the query has the record
\* with reads 0 in the list, and that is its only record.
C3_ZeroWhenAbsent ==
    Returned =>
        \A k \in 1..Len(csv_list) :
            MatchCount(Discovered(k), search_species) = 0 =>
                /\ \E j \in 1..Len(results_list) :
                      results_list[j] = [filename |-> DisplayName(k), reads |-> 0]
                /\ UniqueDisplay(k) =>
                      /\ Cardinality(RecordsOf(k)) = 1
                      /\ ReadsOf(k) = << 0 >>

C3_Witness ==
    /\ Returned
    /\ \E k \in 1..Len(csv_list) :
          /\ UniqueDisplay(k)
          /\ \E j \in 1..Len(Discovered(k).rows) :
                /\ "Species" \in DOMAIN Discovered(k).rows[j]
                /\ DiffersOnlyByCaseOrBlanks(Discovered(k).rows[j]["Species"],
                                             search_species)
          /\ ReadsOf(k) = << 0 >>
    /\ \E k \in 1..Len(csv_list) :
          /\ Discovered(k).rows = << >>
          /\ ReadsOf(k) = << 0 >>

----------------------------------------------------------------------------
(* C4 *)

\* the table <query>.csv as it is on disk
ExportFile == dir[ExportName(search_species)]

\* the filename column of the table
ExportNames == [j \in 1..Len(ExportFile.rows) |-> ExportFile.rows[j].filename]

RECURSIVE NameBlocks(_, _, _)
\* the display name of each of the first k discovered files, repeated once
\* per record of the file
NameBlocks(k, list, q) ==
    IF k = 0 THEN << >>
    ELSE NameBlocks(k - 1, list, q) \o
         [j \in 1..BlockLen(dir0[list[k]], q) |-> shorten_name(list[k])]

\* C4 as stated: after the export step the table has as many data rows as
\* there are discovered files, the k-th row being that of the k-th file.
C4_OneRowPerFile ==
    Exported =>
        /\ Len(ExportFile.rows) = Len(csv_list)
        /\ \A k \in 1..Len(csv_list) : ExportFile.rows[k].filename = DisplayName(k)

\* C4 amended: after the export step the data rows of the table are the
\* records of the discovered files in discovery order, one row per matching
\* row of a file and one row for a file without a matching row; the number
\* of data rows is at least the number of discovered files, and with no
\* discovered file the table has the header only.
C4_RowsInDiscoveryOrder ==
    Exported =>
        /\ ExportFile.exists
        /\ ExportFile.header = { "filename", "reads" }
        /\ ExportNames = NameBlocks(Len(csv_list), csv_list, search_species)
        /\ Len(ExportFile.rows) >= Len(csv_list)
        /\ (csv_list = << >>) => (results_list = << >> /\ ExportFile.rows = << >>)

C4_Witness ==
    /\ Exported
    /\ Len(csv_list) = MaxFiles
    /\ DisplayName(1) # DisplayName(Len(csv_list))
    /\ MatchCount(Discovered(1), search_species) = 0
    /\ MatchCount(Discovered(Len(csv_list)), search_species) >= 1
    /\ ExportNames = NameBlocks(Len(csv_list), csv_list, search_species)

----------------------------------------------------------------------------
(* C5 *)

\* C5 as stated: when the program is run a second time in the same directory
\* with the same query, the table on disk after the second run is the table
\* the first run wrote.
C5_Idempotent ==
    (run = 2 /\ first_export.exists /\ pc \in { "done", "failed" }) =>
        ExportFile = first_export

----------------------------------------------------------------------------
(* C6 *)

\* C6 as stated: create_species_dict does not return when a discovered file
\* lacks the Species column.
C6_FailsWithoutSpecies ==
    Returned =>
        \A k \in 1..Len(csv_list) : "Species" \in Discovered(k).header

\* C6 amended: create_species_dict does not return when a discovered file
\* that lacks the Species column has at least one data row; a file that lacks
\* the column and has no data row raises nothing and gets the record with
\* reads 0.
C6_FailsOnFirstRow ==
    /\ Returned =>
          \A k \in 1..Len(csv_list) :
              "Species" \notin Discovered(k).header =>
                  /\ Discovered(k).rows = << >>
                  /\ \E j \in RecordsOf(k) : results_list[j].reads = 0
    /\ (pc = "scan" /\ "Species" \notin CurrentFile.header) =>
          /\ line_idx = 1
          /\ results_list = Blocks(file_idx - 1, csv_list, search_species)

C6_Witness ==
    /\ pc = "failed"
    /\ error = "KeyError"
    /\ "Species" \notin CurrentFile.header
    /\ Len(CurrentFile.rows) >= 1
    /\ line_idx = 1

----------------------------------------------------------------------------
(* C7 *)

\* C7 as stated: the display name of a discovered file is its name with the
\* trailing "_final_results.csv" removed and nothing else removed.
C7_TrailingSuffixRemoved ==
    pc = "scan" => short_filename = RemoveSuffix(CurrentName, Suffix)

----------------------------------------------------------------------------
(* C8 *)

\* C8: at most one source file is open, it is the file being scanned, and no
\* source file is open outside the scan: not between two files, not when
\* create_species_dict has returned, not when it has failed.
C8_AtMostOneOpen ==
    /\ Cardinality(open_files) <= 1
    /\ pc = "scan" => open_files = { CurrentName }
    /\ pc # "scan" => open_files = {}

C8_Witness ==
    /\ pc = "failed"
    /\ error = "KeyError"
    /\ file_idx > 1
    /\ line_idx > 1
    /\ open_files = {}

----------------------------------------------------------------------------
(* C9 *)

\* C9: the directory and the image are written only after create_species_dict
\* has returned, the image only after the table; when a discovered file makes
\* the aggregation fail, the directory stays as it was, a table of an earlier
\* session included, and no image is written.
C9_ExportOnlyAfterAggregation ==
    /\ dir # dir0 => Exported
    /\ png # {} => (pc = "done" /\ ExportFile = ExportedTable(results_list))
    /\ (pc # "glob" /\ \E k \in 1..Len(csv_list) :
                           FileFails(Discovered(k), typed)) =>
          (dir = dir0 /\ png = {} /\ ~Returned)

C9_Witness ==
    /\ pc = "failed"
    /\ file_idx > 1
    /\ results_list # << >>
    /\ dir0[ExportName(typed)] = OldExport
    /\ dir[ExportName(typed)] = OldExport
    /\ png = {}

----------------------------------------------------------------------------
(* C10 *)

\* C10: the list create_species_dict returns is the concatenation, in
\* discovery order, of one block per file: the Reads fields of the matching
\* rows in row order, or the single record with reads 0; its length is the
\* sum of the block lengths and every filename in it is the display name of a
\* discovered file.
C10_ConcatenationOfBlocks ==
    Returned =>
        /\ results_list = Blocks(Len(csv_list), csv_list, search_species)
        /\ Len(results_list) =
               SumBlockLen(1..Len(csv_list), csv_list, search_species)
        /\ \A j \in 1..Len(results_list) :
               \E k \in 1..Len(csv_list) : results_list[j].filename = DisplayName(k)

C10_Witness ==
    /\ Returned
    /\ Len(csv_list) = MaxFiles
    /\ MatchCount(Discovered(1), search_species) >= 2
    /\ MatchCount(Discovered(Len(csv_list)), search_species) = 0
    /\ Len(results_list) > Len(csv_list)
    /\ results_list[1].reads # results_list[MatchCount(Discovered(1), search_species)].reads

====
